---- MODULE Spec2Model ----
(***************************************************************************)
(* Model of create_example_excel.py: a straight-line script that builds an *)
(* in-memory workbook, registers three defined names, makes sure the       *)
(* output directory exists, saves the workbook to a fixed path and prints  *)
(* a summary.  Each invocation of the script is one process of the model;  *)
(* the file system (the directory chain and the output file) is the only   *)
(* state invocations share.                                                *)
(***************************************************************************)
EXTENDS Integers, Sequences, FiniteSets

\* ------------------------------------------------------------------ bounds
\* Number of invocations of the script a behaviour may hold.
MaxInvocations == 2
\* Number of registrations a behaviour of RegSpec may perform.
MaxRegs == 3

Procs == 1..MaxInvocations

\* ------------------------------------------------------- program constants
\* sheet.column_dimensions[...].width
WidthA == 15
WidthB == 15
WidthC == 12
\* output_dir = "config-repo/common-templates/templates": three path components.
DirDepth == 3
\* The print calls that follow wb.save.
SummaryLines == 8

\* --------------------------------------------------------------- characters
UpperSeq == <<"A","B","C","D","E","F","G","H","I","J","K","L","M",
              "N","O","P","Q","R","S","T","U","V","W","X","Y","Z">>
LowerSeq == <<"a","b","c","d","e","f","g","h","i","j","k","l","m",
              "n","o","p","q","r","s","t","u","v","w","x","y","z">>
DigitSeq == <<"0","1","2","3","4","5","6","7","8","9">>
Range(s) == {s[i] : i \in 1..Len(s)}
UpperSet == Range(UpperSeq)
DigitSet == Range(DigitSeq)
NameCharSet == UpperSet \cup Range(LowerSeq) \cup DigitSet \cup {"_"}
LetterVal(c) == CHOOSE i \in 1..26 : UpperSeq[i] = c
DigitVal(c) == (CHOOSE i \in 1..10 : DigitSeq[i] = c) - 1

\* ------------------------------------------------------ the script's literals
\* sheet.title = "Sheet1"
SheetTitle == <<"S","h","e","e","t","1">>
\* The title Workbook() gives its first sheet.
DefaultTitle == <<"S","h","e","e","t">>
\* "$'Sheet1'!$A$2"
TargetCustomerName == <<"$","'","S","h","e","e","t","1","'","!","$","A","$","2">>
\* "$'Sheet1'!$B$2"
TargetOrderDate == <<"$","'","S","h","e","e","t","1","'","!","$","B","$","2">>
\* "$'Sheet1'!$A$5:$C$10"
TargetItems == <<"$","'","S","h","e","e","t","1","'","!","$","A","$","5",":","$","C","$","1","0">>

\* ------------------------------------------------------------ the document
EmptyMap == [x \in {} |-> 0]
Put(f, k, v) == [x \in DOMAIN f \cup {k} |-> IF x = k THEN v ELSE f[x]]

\* No workbook object yet.
NoDoc == [sheets |-> <<>>, cells |-> EmptyMap, bold |-> {}, fill |-> EmptyMap,
          names |-> EmptyMap, widths |-> EmptyMap]

\* wb = Workbook(): one sheet, titled "Sheet", nothing else.
NewWorkbook == [NoDoc EXCEPT !.sheets = <<DefaultTitle>>]

\* Variant: the title assignment is lost.
SetTitleKeepsDefault(d, t) == d

\* sheet = wb.active; sheet.title = t
SetTitle(d, t) == [d EXCEPT !.sheets = [d.sheets EXCEPT ![1] = t]]

\* sheet[addr] = v
SetCell(d, addr, v) == [d EXCEPT !.cells = Put(d.cells, addr, v)]
\* sheet[addr].font = Font(bold=True)
SetBold(d, addr) == [d EXCEPT !.bold = d.bold \cup {addr}]
\* sheet[addr].fill = PatternFill(start_color=c, end_color=c, fill_type="solid")
SetFill(d, addr, c) == [d EXCEPT !.fill = Put(d.fill, addr, c)]

HeaderCells(d) ==
    SetBold(SetBold(SetCell(SetCell(d, "A1", "Customer Name"), "B1", "Date"), "A1"), "B1")

\* Variant: the placeholders are written into row 1, over the header.
PlaceholderCellsRow1(d) ==
    SetCell(SetCell(d, "A1", "${customerName}"), "B1", "${orderDate}")

PlaceholderCells(d) ==
    SetCell(SetCell(d, "A2", "${customerName}"), "B2", "${orderDate}")

StyleTableCell(d, addr) == SetFill(SetBold(d, addr), addr, "CCCCCC")

TableHeaderCells(d) ==
    LET v == SetCell(SetCell(SetCell(d, "A4", "Item"), "B4", "Qty"), "C4", "Price")
    IN  StyleTableCell(StyleTableCell(StyleTableCell(v, "A4"), "B4"), "C4")

\* DefinedName(name, text)
DefinedName(name, text) == [name |-> name, text |-> text]

\* Variant: a name already registered keeps its first target.
SetDefinedNameKeepFirst(names, key, dn) ==
    IF key \in DOMAIN names THEN names ELSE Put(names, key, dn)

\* wb.defined_names[key] = dn : item assignment on a dict
SetDefinedName(names, key, dn) == Put(names, key, dn)

DefinedNames(d) ==
    LET n1 == SetDefinedName(d.names, "customerName",
                             DefinedName("customerName", TargetCustomerName))
        n2 == SetDefinedName(n1, "orderDate", DefinedName("orderDate", TargetOrderDate))
        n3 == SetDefinedName(n2, "items", DefinedName("items", TargetItems))
    IN  [d EXCEPT !.names = n3]

\* sheet.column_dimensions[col].width = w
SetWidth(d, col, w) == [d EXCEPT !.widths = Put(d.widths, col, w)]

\* Variant: column C gets the width of column A.
ColumnWidthsAllA(d) == SetWidth(SetWidth(SetWidth(d, "A", WidthA), "B", WidthB), "C", WidthA)

ColumnWidths(d) == SetWidth(SetWidth(SetWidth(d, "A", WidthA), "B", WidthB), "C", WidthC)

\* ------------------------------------------- resolving a defined name's text
\* A defined name's text is a reference: a sheet name (quoted with ' or bare),
\* "!", a cell, and for an area ":" and a second cell.  "$" before a column or a
\* row anchors it.
NoRef == [ok |-> FALSE, sheet |-> <<>>, abs |-> FALSE, c1 |-> 0, r1 |-> 0, c2 |-> 0, r2 |-> 0]

\* The first index at or after i whose character is not in A (Len(s)+1 if none).
RunEnd(s, i, A) ==
    CHOOSE j \in i..(Len(s) + 1) :
        /\ \A k \in i..(j - 1) : s[k] \in A
        /\ (j = Len(s) + 1 \/ s[j] \notin A)

RECURSIVE ColumnIndex(_, _, _)
\* Column letters s[i..j-1] as a column number (A = 1, Z = 26, AA = 27).
ColumnIndex(s, i, j) ==
    IF j <= i THEN 0 ELSE ColumnIndex(s, i, j - 1) * 26 + LetterVal(s[j - 1])

RECURSIVE RowIndex(_, _, _)
\* Digits s[i..j-1] as a row number.
RowIndex(s, i, j) ==
    IF j <= i THEN 0 ELSE RowIndex(s, i, j - 1) * 10 + DigitVal(s[j - 1])

\* A cell starting at s[i]: [ok, abs, col, row, next].
ParseCell(s, i) ==
    LET a1 == i <= Len(s) /\ s[i] = "$"
        i1 == IF a1 THEN i + 1 ELSE i
        j  == RunEnd(s, i1, UpperSet)
        a2 == j <= Len(s) /\ s[j] = "$"
        j1 == IF a2 THEN j + 1 ELSE j
        k  == RunEnd(s, j1, DigitSet)
    IN  IF i1 > Len(s) \/ j = i1 \/ k = j1
        THEN [ok |-> FALSE, abs |-> FALSE, col |-> 0, row |-> 0, next |-> i]
        ELSE [ok |-> TRUE, abs |-> a1 /\ a2, col |-> ColumnIndex(s, i1, j),
              row |-> RowIndex(s, j1, k), next |-> k]

\* The sheet part of s: [ok, sheet, next], next being the index of the "!".
ParseSheet(s) ==
    IF s # <<>> /\ s[1] = "'"
    THEN IF \E j \in 2..Len(s) : s[j] = "'"
         THEN LET j == CHOOSE j \in 2..Len(s) :
                           s[j] = "'" /\ \A k \in 2..(j - 1) : s[k] # "'"
              IN  [ok |-> j > 2, sheet |-> SubSeq(s, 2, j - 1), next |-> j + 1]
         ELSE [ok |-> FALSE, sheet |-> <<>>, next |-> 1]
    ELSE LET j == RunEnd(s, 1, NameCharSet)
         IN  [ok |-> j > 1, sheet |-> SubSeq(s, 1, j - 1), next |-> j]

\* The cell or area a defined name's text refers to, NoRef when it is no reference.
Resolve(s) ==
    LET sh == ParseSheet(s)
    IN  IF ~sh.ok \/ sh.next > Len(s) \/ s[sh.next] # "!" THEN NoRef
        ELSE LET a == ParseCell(s, sh.next + 1)
             IN  IF ~a.ok THEN NoRef
                 ELSE IF a.next = Len(s) + 1
                      THEN [ok |-> TRUE, sheet |-> sh.sheet, abs |-> a.abs,
                            c1 |-> a.col, r1 |-> a.row, c2 |-> a.col, r2 |-> a.row]
                      ELSE IF s[a.next] # ":" THEN NoRef
                      ELSE LET b == ParseCell(s, a.next + 1)
                           IN  IF ~b.ok \/ b.next # Len(s) + 1 THEN NoRef
                               ELSE [ok |-> TRUE, sheet |-> sh.sheet,
                                     abs |-> a.abs /\ b.abs,
                                     c1 |-> a.col, r1 |-> a.row,
                                     c2 |-> b.col, r2 |-> b.row]

\* ----------------------------------------------------------- the output file
\* wb.save writes the archive piece by piece: the worksheet part (cells, styles,
\* column widths) and the workbook part (sheet list, defined names).  A chunk
\* remembers which invocation wrote it.
Parts == <<"sheet", "workbook">>
NParts == Len(Parts)

PartData(d, part) ==
    IF part = "sheet"
    THEN [NoDoc EXCEPT !.cells = d.cells, !.bold = d.bold, !.fill = d.fill,
                       !.widths = d.widths]
    ELSE [NoDoc EXCEPT !.sheets = d.sheets, !.names = d.names]

Chunk(d, owner, k) == [owner |-> owner, part |-> Parts[k], data |-> PartData(d, Parts[k])]
\* Bytes no write has filled (a write past the end of a shorter file).
Hole == [owner |-> 0, part |-> "hole", data |-> NoDoc]
\* What another program left at the output path before the first invocation.
StaleChunk == [owner |-> 0, part |-> "stale", data |-> NoDoc]
StaleFile == <<StaleChunk, StaleChunk, StaleChunk>>

Serialize(d, owner) == [k \in 1..NParts |-> Chunk(d, owner, k)]

\* A file is a well-formed archive when it holds exactly the parts, in order,
\* all written by one invocation.
WellFormed(f) ==
    /\ Len(f) = NParts
    /\ \A k \in 1..NParts : f[k].part = Parts[k] /\ f[k].owner = f[1].owner

\* The document a reader gets from a well-formed file.
Load(f) ==
    [sheets |-> f[2].data.sheets, cells |-> f[1].data.cells, bold |-> f[1].data.bold,
     fill |-> f[1].data.fill, names |-> f[2].data.names, widths |-> f[1].data.widths]

\* Variant: mode "ab", the file is kept and writing starts at its end.
OpenFileAppend(f) == [content |-> f, offset |-> Len(f)]
\* Variant: mode "r+b", the file is kept and writing starts at 0.
OpenFileKeep(f) == [content |-> f, offset |-> 0]

\* open(path, "wb"): the file is created or cut to length 0, writing starts at 0.
OpenFile(f) == [content |-> <<>>, offset |-> 0]

\* write at offset off: the file grows as needed, other positions are kept.
WriteAt(f, off, c) ==
    [i \in 1..(IF Len(f) > off THEN Len(f) ELSE off + 1) |->
        IF i = off + 1 THEN c ELSE IF i <= Len(f) THEN f[i] ELSE Hole]

\* Variant: exist_ok=False, an existing directory raises too.
MakedirsNoExistOk(depth) == TRUE

\* os.makedirs(output_dir, exist_ok=True) raises only when it has to create a
\* directory and the file system refuses.
MakedirsMayRaise(depth) == depth < DirDepth

\* Variant: the exception is swallowed and the script goes on to its summary.
OnErrorSwallowed == "print"

\* An exception nothing catches ends the process.
OnError == "failed"

\* Variant: the save is issued again.
AfterSaveAgain == "open"

\* The statement that follows wb.save(output_path).
AfterSave == "print"

\* ------------------------------------------------------------------- state
VARIABLES
    pc,        \* pc[p]: the statement invocation p executes next
    wb,        \* wb[p]: the in-memory workbook of invocation p
    offset,    \* offset[p]: the write position of p's handle on the output file
    written,   \* written[p]: the parts p's save has written
    printed,   \* printed[p]: the print calls p has made
    saves,     \* saves[p]: the wb.save calls of p that returned
    started,   \* the invocations started so far
    depth,     \* the leading components of output_dir that exist as directories
    exists,    \* whether a file exists at output_path
    file,      \* the content of the file at output_path
    closed,    \* the invocations whose save returned, in the order they returned
    overlap,   \* overlap[p]: p's save ran while another invocation's save was open
    result,    \* result[p]: what output_path held when p's save returned
    regNames,  \* a defined_names dict under a series of registrations
    regLog     \* the registrations made on regNames, in order

vars == <<pc, wb, offset, written, printed, saves, started, depth, exists, file,
          closed, overlap, result, regNames, regLog>>

procVars == <<pc, wb, offset, written, printed, saves, started>>
fsVars == <<depth, exists, file>>
saveVars == <<closed, overlap, result>>
regVars == <<regNames, regLog>>

\* What a reader finds at output_path.
Snapshot(e, f) ==
    IF e /\ WellFormed(f) THEN [ok |-> TRUE, doc |-> Load(f)]
    ELSE [ok |-> FALSE, doc |-> NoDoc]

Saving(p) == pc[p] \in {"write", "close"}
Finished(p) == pc[p] \in {"done", "failed"}

\* Before the first invocation: any prefix of the directory chain exists, and
\* if the directory exists a file may already be at output_path.
Init ==
    /\ pc = [p \in Procs |-> "idle"]
    /\ wb = [p \in Procs |-> NoDoc]
    /\ offset = [p \in Procs |-> 0]
    /\ written = [p \in Procs |-> 0]
    /\ printed = [p \in Procs |-> 0]
    /\ saves = [p \in Procs |-> 0]
    /\ started = 0
    /\ depth \in 0..DirDepth
    /\ exists \in (IF depth = DirDepth THEN BOOLEAN ELSE {FALSE})
    /\ file = (IF exists THEN StaleFile ELSE <<>>)
    /\ closed = <<>>
    /\ overlap = [p \in Procs |-> FALSE]
    /\ result = [p \in Procs |-> [ok |-> FALSE, doc |-> NoDoc]]
    /\ regNames = EmptyMap
    /\ regLog = <<>>

\* ----------------------------------------------------------------- actions
\* python3 create_example_excel.py, while other invocations may be running.
Start(p) ==
    /\ pc[p] = "idle"
    /\ p = started + 1
    /\ started' = p
    /\ pc' = [pc EXCEPT ![p] = "init"]
    /\ UNCHANGED <<wb, offset, written, printed, saves, fsVars, saveVars, regVars>>

\* python3 create_example_excel.py, run after every earlier invocation has ended.
StartAlone(p) ==
    /\ \A q \in Procs : pc[q] = "idle" \/ Finished(q)
    /\ Start(p)

\* A step that only changes p's workbook.
Build(p, at, doc, next) ==
    /\ pc[p] = at
    /\ wb' = [wb EXCEPT ![p] = doc]
    /\ pc' = [pc EXCEPT ![p] = next]
    /\ UNCHANGED <<offset, written, printed, saves, started, fsVars, saveVars, regVars>>

InitDocument(p) == Build(p, "init", SetTitle(NewWorkbook, SheetTitle), "header")
WriteHeader(p) == Build(p, "header", HeaderCells(wb[p]), "placeholder")
WritePlaceholders(p) == Build(p, "placeholder", PlaceholderCells(wb[p]), "tablehead")
WriteTableHeader(p) == Build(p, "tablehead", TableHeaderCells(wb[p]), "names")
RegisterNames(p) == Build(p, "names", DefinedNames(wb[p]), "widths")
SetColumnWidths(p) == Build(p, "widths", ColumnWidths(wb[p]), "makedirs")

\* os.makedirs(output_dir, exist_ok=True) returns: the whole chain exists.
EnsureDir(p) ==
    /\ pc[p] = "makedirs"
    /\ depth' = DirDepth
    /\ pc' = [pc EXCEPT ![p] = "open"]
    /\ UNCHANGED <<wb, offset, written, printed, saves, started, exists, file,
                   saveVars, regVars>>

\* os.makedirs raises (permission denied, read-only file system, ...), having
\* perhaps created some of the parents.
EnsureDirFails(p) ==
    /\ pc[p] = "makedirs"
    /\ MakedirsMayRaise(depth)
    /\ depth' \in {d \in depth..DirDepth : d = depth \/ d < DirDepth}
    /\ pc' = [pc EXCEPT ![p] = OnError]
    /\ UNCHANGED <<wb, offset, written, printed, saves, started, exists, file,
                   saveVars, regVars>>

\* wb.save(output_path) opens the file for writing.
SaveOpen(p) ==
    /\ pc[p] = "open"
    /\ depth = DirDepth
    /\ LET o == OpenFile(file)
           others == {q \in Procs \ {p} : Saving(q)}
       IN  /\ file' = o.content
           /\ offset' = [offset EXCEPT ![p] = o.offset]
           /\ overlap' = [q \in Procs |->
                             IF q \in others \/ (q = p /\ others # {}) THEN TRUE
                             ELSE IF q = p THEN FALSE ELSE overlap[q]]
    /\ exists' = TRUE
    /\ written' = [written EXCEPT ![p] = 0]
    /\ pc' = [pc EXCEPT ![p] = "write"]
    /\ UNCHANGED <<wb, printed, saves, started, depth, closed, result, regVars>>

\* wb.save raises before the file is touched (permission denied, ...).
SaveOpenFails(p) ==
    /\ pc[p] = "open"
    /\ pc' = [pc EXCEPT ![p] = OnError]
    /\ UNCHANGED <<wb, offset, written, printed, saves, started, fsVars, saveVars,
                   regVars>>

\* wb.save writes its next part at its handle's position.
SaveWrite(p) ==
    /\ pc[p] = "write"
    /\ LET k == written[p] + 1
       IN  /\ file' = WriteAt(file, offset[p], Chunk(wb[p], p, k))
           /\ written' = [written EXCEPT ![p] = k]
           /\ pc' = [pc EXCEPT ![p] = IF k = NParts THEN "close" ELSE "write"]
    /\ offset' = [offset EXCEPT ![p] = offset[p] + 1]
    /\ UNCHANGED <<wb, printed, saves, started, depth, exists, saveVars, regVars>>

\* wb.save raises part way (disk full, ...): what was written stays.
SaveWriteFails(p) ==
    /\ pc[p] = "write"
    /\ pc' = [pc EXCEPT ![p] = OnError]
    /\ UNCHANGED <<wb, offset, written, printed, saves, started, fsVars, saveVars,
                   regVars>>

\* wb.save closes the file and returns.
SaveClose(p) ==
    /\ pc[p] = "close"
    /\ saves' = [saves EXCEPT ![p] = saves[p] + 1]
    /\ closed' = Append(closed, p)
    /\ result' = [result EXCEPT ![p] = Snapshot(exists, file)]
    /\ pc' = [pc EXCEPT ![p] = AfterSave]
    /\ UNCHANGED <<wb, offset, written, printed, started, fsVars, overlap, regVars>>

\* One of the print calls that end the script.
PrintLine(p) ==
    /\ pc[p] = "print"
    /\ printed' = [printed EXCEPT ![p] = printed[p] + 1]
    /\ pc' = [pc EXCEPT ![p] = IF printed[p] + 1 = SummaryLines THEN "done" ELSE "print"]
    /\ UNCHANGED <<wb, offset, written, saves, started, fsVars, saveVars, regVars>>

Step(p) ==
    \/ InitDocument(p)
    \/ WriteHeader(p)
    \/ WritePlaceholders(p)
    \/ WriteTableHeader(p)
    \/ RegisterNames(p)
    \/ SetColumnWidths(p)
    \/ EnsureDir(p)
    \/ EnsureDirFails(p)
    \/ SaveOpen(p)
    \/ SaveOpenFails(p)
    \/ SaveWrite(p)
    \/ SaveWriteFails(p)
    \/ SaveClose(p)
    \/ PrintLine(p)

\* The script run by one operator, one invocation after another.
Next == \E p \in Procs : StartAlone(p) \/ Step(p)
Spec == Init /\ [][Next]_vars

\* Invocations started at any time, with no locking between them.
ConcNext == \E p \in Procs : Start(p) \/ Step(p)
ConcSpec == Init /\ [][ConcNext]_vars

\* ------------------------------------------- registrations on defined_names
RegKeys == {"customerName", "orderDate", "items"}
RegTargets == {TargetCustomerName, TargetOrderDate, TargetItems}

\* wb.defined_names[key] = DefinedName(key, target)
Register(key, target) ==
    /\ Len(regLog) < MaxRegs
    /\ regNames' = SetDefinedName(regNames, key, DefinedName(key, target))
    /\ regLog' = Append(regLog, <<key, target>>)
    /\ UNCHANGED <<procVars, fsVars, saveVars>>

RegNext == \E key \in RegKeys, target \in RegTargets : Register(key, target)
RegSpec == Init /\ [][RegNext]_vars

\* ================================================================== claims
\* The invocation started last: no later invocation has touched the file system.
Latest(p) == p = started
Succeeded(p) == pc[p] = "done"
LastClosed == closed[Len(closed)]

\* The workbook the script has built when it reaches os.makedirs.
BuiltDoc ==
    ColumnWidths(DefinedNames(TableHeaderCells(PlaceholderCells(HeaderCells(
        SetTitle(NewWorkbook, SheetTitle))))))

\* C1: after a successful run the file exists at the output path, inside the
\* output directory, and the document it holds has exactly one sheet, named
\* "Sheet1".
C1_FileHasOneSheetNamedSheet1 ==
    \A p \in Procs :
        (Succeeded(p) /\ Latest(p)) =>
            /\ depth = DirDepth
            /\ exists
            /\ WellFormed(file)
            /\ Load(file).sheets = <<SheetTitle>>

C1_Witness ==
    /\ Succeeded(1) /\ Succeeded(2) /\ Latest(2)
    /\ Load(file).sheets = <<SheetTitle>>

ExpectedCells ==
    [a \in {"A1", "B1", "A2", "B2", "A4", "B4", "C4"} |->
        CASE a = "A1" -> "Customer Name"
          [] a = "B1" -> "Date"
          [] a = "A2" -> "${customerName}"
          [] a = "B2" -> "${orderDate}"
          [] a = "A4" -> "Item"
          [] a = "B4" -> "Qty"
          [] a = "C4" -> "Price"]

\* C2: the document saved by a successful run holds exactly the seven cell
\* values A1="Customer Name", B1="Date", A2="${customerName}", B2="${orderDate}",
\* A4="Item", B4="Qty", C4="Price", and no step of a run changes the value of a
\* cell an earlier step of that run has set.
C2_SavedCellValues ==
    /\ [](\A p \in Procs :
            (Succeeded(p) /\ Latest(p)) =>
                exists /\ WellFormed(file) /\ Load(file).cells = ExpectedCells)
    /\ [][\A p \in Procs : \A a \in DOMAIN wb[p].cells :
            a \in DOMAIN wb'[p].cells /\ wb'[p].cells[a] = wb[p].cells[a]]_vars

C2_Witness ==
    /\ Succeeded(1) /\ Latest(1)
    /\ WellFormed(file)
    /\ Load(file).cells["A2"] = "${customerName}"
    /\ Load(file).cells["C4"] = "Price"

SingleCell(col, row) ==
    [ok |-> TRUE, sheet |-> SheetTitle, abs |-> TRUE,
     c1 |-> col, r1 |-> row, c2 |-> col, r2 |-> row]

\* C3: in the document saved by a successful run, customerName resolves to
\* exactly cell A2 on Sheet1, orderDate to exactly B2 on Sheet1 and items to
\* exactly the area A5:C10 on Sheet1, every anchor absolute, the area's start
\* row and column not after its end row and column.
C3_NamedRangesResolve ==
    \A p \in Procs :
        (Succeeded(p) /\ Latest(p)) =>
            /\ exists /\ WellFormed(file)
            /\ LET n == Load(file).names
                   items == Resolve(n["items"].text)
               IN  /\ DOMAIN n = {"customerName", "orderDate", "items"}
                   /\ Resolve(n["customerName"].text) = SingleCell(1, 2)
                   /\ Resolve(n["orderDate"].text) = SingleCell(2, 2)
                   /\ items = [ok |-> TRUE, sheet |-> SheetTitle, abs |-> TRUE,
                               c1 |-> 1, r1 |-> 5, c2 |-> 3, r2 |-> 10]
                   /\ items.c1 <= items.c2 /\ items.r1 <= items.r2

\* C4: run twice in succession, the builder leaves after each run a file that
\* loads to the same cell values, styles and named ranges; the file of the later
\* run is the one at the path; what was at the path or in the directory chain
\* before a run does not change its result.
C4_Idempotent ==
    /\ \A p, q \in Procs :
          (saves[p] = 1 /\ saves[q] = 1) =>
              /\ result[p].ok
              /\ result[p].doc.cells = result[q].doc.cells
              /\ result[p].doc.bold = result[q].doc.bold
              /\ result[p].doc.fill = result[q].doc.fill
              /\ result[p].doc.names = result[q].doc.names
    /\ \A p \in Procs :
          (Succeeded(p) /\ Latest(p)) => exists /\ file = Serialize(wb[p], p)

C4_Witness ==
    /\ Succeeded(1) /\ Succeeded(2)
    /\ result[1].ok /\ result[2] = result[1]
    /\ file = Serialize(wb[2], 2)

C6_EnsureDirectory ==
    /\ [](\A p \in Procs :
            /\ pc[p] \in {"open", "write", "close"} => depth = DirDepth
            /\ (Succeeded(p) /\ Latest(p)) => depth = DirDepth /\ exists)
    /\ [][\A p \in Procs :
            (pc[p] = "makedirs" /\ pc'[p] # "makedirs") =>
                /\ depth = DirDepth => pc'[p] = "open" /\ depth' = depth
                /\ pc'[p] = "open" => depth' = DirDepth
                /\ exists' = exists /\ file' = file]_vars

C6_Witness ==
    /\ Succeeded(1)
    /\ pc[2] = "open" /\ depth = DirDepth

RegisteredKeys == {regLog[i][1] : i \in 1..Len(regLog)}
LatestRegistration(k) ==
    CHOOSE i \in 1..Len(regLog) :
        regLog[i][1] = k /\ \A j \in (i + 1)..Len(regLog) : regLog[j][1] # k

\* C7: after any sequence of registrations each registered name is bound to
\* exactly one target, the target of its latest registration, and registering a
\* name again is always possible (no duplicate-name error).
C7_LastWriteWins ==
    /\ DOMAIN regNames = RegisteredKeys
    /\ \A k \in RegisteredKeys :
          regNames[k] = DefinedName(k, regLog[LatestRegistration(k)][2])
    /\ Len(regLog) < MaxRegs =>
          \A k \in RegisteredKeys, t \in RegTargets : ENABLED Register(k, t)

C7_Witness ==
    \E i, j \in 1..Len(regLog) :
        /\ i < j
        /\ regLog[i][1] = regLog[j][1]
        /\ regLog[i][2] # regLog[j][2]
        /\ regNames[regLog[j][1]].text = regLog[j][2]

\* C8 as claimed: once all concurrent invocations have finished, the file is the
\* complete document written by the invocation whose save finished last.
C8_LastSaveWinsWhole ==
    (\A p \in Procs : Succeeded(p)) =>
        exists /\ file = Serialize(wb[LastClosed], LastClosed)

\* C8 amended: each invocation builds its own workbook, the same whatever the
\* others do; once all invocations have finished without error, the file is the
\* complete document of the invocation whose save finished last provided that
\* save did not overlap another invocation's save.
C8_LastSaveWinsIfNoOverlap ==
    /\ \A p \in Procs :
          pc[p] \in {"makedirs", "open", "write", "close", "print", "done"} =>
              wb[p] = BuiltDoc
    /\ ((\A p \in Procs : Succeeded(p)) /\ ~overlap[LastClosed]) =>
          exists /\ file = Serialize(wb[LastClosed], LastClosed)

C8_Witness ==
    /\ \A p \in Procs : Succeeded(p)
    /\ closed[1] # 1
    /\ ~overlap[LastClosed]
    /\ file = Serialize(wb[LastClosed], LastClosed)

\* C9: the document saved by a successful run has column widths A = 15, B = 15
\* and C = 12.
C9_SavedColumnWidths ==
    \A p \in Procs :
        (Succeeded(p) /\ Latest(p)) =>
            /\ exists /\ WellFormed(file)
            /\ DOMAIN Load(file).widths = {"A", "B", "C"}
            /\ Load(file).widths["A"] = 15
            /\ Load(file).widths["B"] = 15
            /\ Load(file).widths["C"] = 12

C9_Witness ==
    /\ Succeeded(2) /\ Latest(2)
    /\ WellFormed(file)
    /\ Load(file).widths["C"] = 12

\* The order of the script's statements.
Rank(l) ==
    CASE l = "idle" -> 0
      [] l = "init" -> 1
      [] l = "header" -> 2
      [] l = "placeholder" -> 3
      [] l = "tablehead" -> 4
      [] l = "names" -> 5
      [] l = "widths" -> 6
      [] l = "makedirs" -> 7
      [] l = "open" -> 8
      [] l = "write" -> 9
      [] l = "close" -> 10
      [] l = "print" -> 11
      [] l = "done" -> 12
      [] l = "failed" -> 12

\* C10: a run is one forward pass: the workbook is complete before the save
\* starts and never changes from then on, the save returns at most once and
\* exactly once in a successful run, and a run that has ended takes no further
\* step; a run that has not ended can always take its next step.
C10_LinearPass ==
    /\ [](\A p \in Procs :
            /\ saves[p] <= 1
            /\ Succeeded(p) => saves[p] = 1
            /\ Rank(pc[p]) >= Rank("makedirs") /\ pc[p] # "failed" => wb[p] = BuiltDoc
            /\ (pc[p] # "idle" /\ ~Finished(p)) => ENABLED Step(p))
    /\ [][\A p \in Procs :
            /\ Rank(pc'[p]) >= Rank(pc[p])
            /\ Rank(pc[p]) >= Rank("makedirs") => wb'[p] = wb[p]
            /\ Finished(p) =>
                  /\ pc'[p] = pc[p] /\ wb'[p] = wb[p]
                  /\ printed'[p] = printed[p] /\ saves'[p] = saves[p]]_vars

C10_Witness ==
    /\ Succeeded(1) /\ saves[1] = 1 /\ wb[1] = BuiltDoc
    /\ pc[2] = "failed" /\ saves[2] = 0

====
